---- MODULE Spec2Model ----
(***************************************************************************)
(* A model of the command-line dispatcher of src/index.ts: the registry    *)
(* object `commands`, defineCommand, parseCommand (util.parseArgs with     *)
(* strict: true, options: {}, allowPositionals: true), runCommand and the  *)
(* top-level dispatch on Bun.argv.                                         *)
(*                                                                         *)
(* `commands` is an ordinary JavaScript object literal, so its property    *)
(* reads, writes and key enumeration follow the language's object rules:   *)
(* reads and writes go through the prototype chain, the file is an ES      *)
(* module and therefore strict-mode code, and Object.keys lists integer    *)
(* index keys first.                                                       *)
(***************************************************************************)
EXTENDS Integers, Sequences, FiniteSets, TLC

(* Bounds of the model. *)
MaxDefs == 1   \* defineCommand calls after the shipped one, in Spec
MaxRegs == 2   \* defineCommand calls after the shipped one, in RegistrySpec
MaxUser == 2   \* user-supplied tokens after the runtime and script tokens
MaxVec  == 3   \* length of the vectors parseCommand is applied to in ParseSpec

(***************************************************************************)
(* JavaScript values.  Strings stand for themselves; the other values are  *)
(* tagged so that no string token equals them.                             *)
(***************************************************************************)
Undefined        == "#undefined"
ObjectPrototype  == "#Object.prototype"
ObjProtoToString == "#Object.prototype.toString"
FnProtoToString  == "#Function.prototype.toString"
FnNameString     == "#string:"      \* the `name` of an anonymous function: ""

(* CommandFunction values: the shipped handler of line 21 and two others.  *)
FnHw    == "#fn:hw"       \* (args) => { console.log("Hello world") }
FnA     == "#fn:a"        \* a handler that returns without output
FnThrow == "#fn:throw"    \* a handler that throws
CommandFunction == {FnHw, FnA, FnThrow}

(* The tokens Bun puts in front of the user's tokens. *)
Runtime == "bun"
Script  == "index.ts"

(* Command names given to defineCommand, and tokens the user can type. *)
Names      == {"hw", "help", "undefined", "1", "toString", "__proto__", "name"}
UserTokens == {"hw", "unknown", "toString", "__proto__", "-", "--", "--bogus"}
Tokens     == UserTokens \cup {Runtime, Script}

(* The characters of each string of the model. *)
Chars(s) ==
    CASE s = "hw"        -> <<"h", "w">>
      [] s = "help"      -> <<"h", "e", "l", "p">>
      [] s = "undefined" -> <<"u", "n", "d", "e", "f", "i", "n", "e", "d">>
      [] s = "unknown"   -> <<"u", "n", "k", "n", "o", "w", "n">>
      [] s = "1"         -> <<"1">>
      [] s = "2"         -> <<"2">>
      [] s = "toString"  -> <<"t", "o", "S", "t", "r", "i", "n", "g">>
      [] s = "__proto__" -> <<"_", "_", "p", "r", "o", "t", "o", "_", "_">>
      [] s = "name"      -> <<"n", "a", "m", "e">>
      [] s = "-"         -> <<"-">>
      [] s = "--"        -> <<"-", "-">>
      [] s = "--bogus"   -> <<"-", "-", "b", "o", "g", "u", "s">>
      [] s = "bun"       -> <<"b", "u", "n">>
      [] s = "index.ts"  -> <<"i", "n", "d", "e", "x", ".", "t", "s">>
      [] OTHER           -> <<"?">>

StartsWithDash(s) == Len(Chars(s)) >= 1 /\ Chars(s)[1] = "-"

DigitValue(c) ==
    CASE c = "0" -> 0 [] c = "1" -> 1 [] c = "2" -> 2 [] c = "3" -> 3
      [] c = "4" -> 4 [] c = "5" -> 5 [] c = "6" -> 6 [] c = "7" -> 7
      [] c = "8" -> 8 [] c = "9" -> 9 [] OTHER -> -1

(* A canonical array index: decimal digits without a leading zero. *)
IsArrayIndex(k) ==
    LET cs == Chars(k) IN
    /\ Len(cs) >= 1
    /\ \A i \in 1..Len(cs) : DigitValue(cs[i]) >= 0
    /\ (Len(cs) > 1 => cs[1] # "0")

RECURSIVE DigitsValue(_)
DigitsValue(cs) ==
    IF cs = <<>> THEN 0
    ELSE 10 * DigitsValue(SubSeq(cs, 1, Len(cs) - 1)) + DigitValue(cs[Len(cs)])

IndexValue(k) == DigitsValue(Chars(k))

(***************************************************************************)
(* The object `commands`: its own properties in creation order, and its    *)
(* prototype.                                                              *)
(***************************************************************************)
EmptyObject == [own |-> <<>>, proto |-> ObjectPrototype]

OwnIndex(o, k) ==
    IF \E i \in 1..Len(o.own) : o.own[i].key = k
    THEN CHOOSE i \in 1..Len(o.own) : o.own[i].key = k
    ELSE 0

HasOwn(o, k) == OwnIndex(o, k) # 0

(* A property found on the prototype chain of an object whose prototype is *)
(* p: Object.prototype, or a function followed by Function.prototype and   *)
(* Object.prototype.  `__proto__` is the accessor of Object.prototype and  *)
(* yields the prototype itself.                                            *)
Inherited(p, k) ==
    IF k = "__proto__" THEN p
    ELSE IF p = ObjectPrototype
         THEN (IF k = "toString" THEN ObjProtoToString ELSE Undefined)
         ELSE (IF k = "name" THEN FnNameString
               ELSE IF k = "toString" THEN FnProtoToString
               ELSE Undefined)

(* An inherited data property that is not writable: a function's `name`. *)
InheritedReadOnly(p, k) == p \in CommandFunction /\ k = "name"

(* commands[k] *)
Get(o, k) ==
    IF HasOwn(o, k) THEN o.own[OwnIndex(o, k)].value ELSE Inherited(o.proto, k)

(* commands[k] = v in strict-mode code: [ok, obj]. *)
Put(o, k, v) ==
    IF HasOwn(o, k)
    THEN [ok  |-> TRUE,
          obj |-> [o EXCEPT !.own[OwnIndex(o, k)].value = v]]
    ELSE IF k = "__proto__"
    THEN [ok |-> TRUE, obj |-> [o EXCEPT !.proto = v]]
    ELSE IF InheritedReadOnly(o.proto, k)
    THEN [ok |-> FALSE, obj |-> o]
    ELSE [ok  |-> TRUE,
          obj |-> [o EXCEPT !.own = Append(@, [key |-> k, value |-> v])]]

OwnKeys(o) == [i \in 1..Len(o.own) |-> o.own[i].key]

RECURSIVE SortIndices(_)
SortIndices(S) ==
    IF S = {} THEN <<>>
    ELSE LET m == CHOOSE x \in S : \A y \in S : IndexValue(x) <= IndexValue(y)
         IN <<m>> \o SortIndices(S \ {m})

(* Object.keys(commands): index keys ascending, then the others as created *)
ObjectKeys(o) ==
    LET IsIdx(k) == IsArrayIndex(k)
        NotIdx(k) == ~IsArrayIndex(k)
        idx == SelectSeq(OwnKeys(o), IsIdx)
    IN SortIndices({idx[i] : i \in 1..Len(idx)}) \o SelectSeq(OwnKeys(o), NotIdx)

VARIABLES pc, commands, defs, argv, command, out, calls, err

vars == <<pc, commands, defs, argv, command, out, calls, err>>

(***************************************************************************)
(* Calling a value as a function: the lines it prints and how it ends.     *)
(***************************************************************************)
IsCallable(v) == v \in CommandFunction \cup {ObjProtoToString, FnProtoToString}

Call(v, a) ==
    CASE v = FnHw             -> [out |-> <<"Hello world">>, err |-> "none"]
      [] v = FnA              -> [out |-> <<>>, err |-> "none"]
      [] v = FnThrow          -> [out |-> <<>>, err |-> "HandlerError"]
      [] v = ObjProtoToString -> [out |-> <<>>, err |-> "none"]
      [] OTHER                -> [out |-> <<>>, err |-> "TypeError"]

(* The record of what an invocation did: lines printed, calls made, error. *)
Invoke(v, a) ==
    [out   |-> Call(v, a).out,
     calls |-> IF IsCallable(v) THEN <<[fn |-> v, args |-> a]>> ELSE <<>>,
     err   |-> Call(v, a).err]

(* A value used as a property key, and a 0-based element read. *)
ToPropertyKey(v) == IF v = Undefined THEN "undefined" ELSE v

At(s, i) == IF i + 1 \in 1..Len(s) THEN s[i + 1] ELSE Undefined

(***************************************************************************)
(* defineCommand                                                           *)
(***************************************************************************)
defineCommand(cmds, commandName, commandFunction) ==
    Put(cmds, commandName, commandFunction)

(***************************************************************************)
(* util.parseArgs({args, options: {}, strict: true, allowPositionals: true})*)
(* `--` ends option parsing and is dropped; a lone `-` is a positional; any *)
(* other token that starts with `-` is an option, and unknown.              *)
(***************************************************************************)
IsTerminator(t) == t = "--"

IsOption(t) == StartsWithDash(t) /\ Len(Chars(t)) >= 2 /\ ~IsTerminator(t)

(* parseArgs with strict: false: an unknown option is accepted, not thrown *)
RECURSIVE parseArgs_NotStrict(_)
parseArgs_NotStrict(a) ==
    IF a = <<>> THEN [ok |-> TRUE, positionals |-> <<>>]
    ELSE IF IsTerminator(Head(a)) THEN [ok |-> TRUE, positionals |-> Tail(a)]
    ELSE IF IsOption(Head(a)) THEN parseArgs_NotStrict(Tail(a))
    ELSE [ok |-> TRUE,
          positionals |-> <<Head(a)>> \o parseArgs_NotStrict(Tail(a)).positionals]

RECURSIVE parseArgs(_)
parseArgs(a) ==
    IF a = <<>> THEN [ok |-> TRUE, positionals |-> <<>>]
    ELSE IF IsTerminator(Head(a)) THEN [ok |-> TRUE, positionals |-> Tail(a)]
    ELSE IF IsOption(Head(a)) THEN [ok |-> FALSE, positionals |-> <<>>]
    ELSE LET rest == parseArgs(Tail(a)) IN
         IF rest.ok
         THEN [ok |-> TRUE, positionals |-> <<Head(a)>> \o rest.positionals]
         ELSE rest

NoCommand == [command |-> Undefined, args |-> <<>>]

(* parseCommand without the destructuring of line 54: args keeps the command *)
parseCommand_KeepCommand(a) ==
    LET parsed == parseArgs(a)
        positionals == parsed.positionals
    IN IF ~parsed.ok THEN [ok |-> FALSE, value |-> NoCommand]
       ELSE [ok    |-> TRUE,
             value |-> [command |-> At(positionals, 0), args |-> positionals]]

(* parseCommand: [ok, value]; ok is FALSE when parseArgs throws. *)
parseCommand(a) ==
    LET parsed == parseArgs(a)
        positionals == parsed.positionals
    IN IF ~parsed.ok THEN [ok |-> FALSE, value |-> NoCommand]
       ELSE [ok    |-> TRUE,
             value |-> [command |-> At(positionals, 0),
                        args    |-> IF positionals = <<>> THEN <<>>
                                    ELSE Tail(positionals)]]

(***************************************************************************)
(* runCommand                                                              *)
(***************************************************************************)
Listing(cmds) ==
    <<"Available commands:">> \o
    [i \in 1..Len(ObjectKeys(cmds)) |-> "- " \o ObjectKeys(cmds)[i]]

(* runCommand handing the handler its arguments without the first one *)
runCommand_DropFirst(cmds, name, a) ==
    LET commandFunction == Get(cmds, ToPropertyKey(name)) IN
    IF commandFunction = Undefined
    THEN [out |-> Listing(cmds), calls |-> <<>>, err |-> "none"]
    ELSE Invoke(commandFunction, IF a = <<>> THEN <<>> ELSE Tail(a))

runCommand(cmds, name, a) ==
    LET commandFunction == Get(cmds, ToPropertyKey(name)) IN
    IF commandFunction = Undefined
    THEN [out |-> Listing(cmds), calls |-> <<>>, err |-> "none"]
    ELSE Invoke(commandFunction, a)

(* The dispatch reading the command name at index 0 of the parsed args *)
TopLevel_Index0(cmds, cmd) ==
    IF Len(cmd.args) = 0
    THEN Invoke(Get(cmds, "help"), <<>>)
    ELSE runCommand(cmds, At(cmd.args, 0), cmd.args)

(* Lines 97-101: the dispatch on the parsed command. *)
TopLevel(cmds, cmd) ==
    IF Len(cmd.args) = 0
    THEN Invoke(Get(cmds, "help"), <<>>)
    ELSE runCommand(cmds, At(cmd.args, 1), cmd.args)

(***************************************************************************)
(* The program as a state machine.                                         *)
(***************************************************************************)
Vectors(S, n) == UNION {[1..k -> S] : k \in 0..n}

BunArgv == {<<Runtime, Script>> \o u : u \in Vectors(UserTokens, MaxUser)}

Init ==
    /\ pc = "load"
    /\ commands = EmptyObject
    /\ defs = <<>>
    /\ argv \in BunArgv
    /\ command = NoCommand
    /\ out = <<>>
    /\ calls = <<>>
    /\ err = "none"

(* A defineCommand call of the module body: line 21, or one added to it.   *)
(* defs records the calls made, the one that threw included.               *)
Define(n, f) ==
    LET r == defineCommand(commands, n, f) IN
    /\ defs' = Append(defs, [name |-> n, fn |-> f])
    /\ commands' = r.obj
    /\ pc' = IF r.ok THEN "registering" ELSE "define_threw"
    /\ err' = IF r.ok THEN "none" ELSE "TypeError"
    /\ UNCHANGED <<argv, command, out, calls>>

(* Line 21. *)
DefineHw ==
    /\ pc = "load"
    /\ Define("hw", FnHw)

DefineCommandUpTo(max) ==
    /\ pc = "registering"
    /\ Len(defs) < 1 + max
    /\ \E n \in Names, f \in CommandFunction : Define(n, f)

DefineCommand == DefineCommandUpTo(MaxDefs)

(* Line 96. *)
ParseArgv ==
    /\ pc = "registering"
    /\ LET r == parseCommand(argv) IN
       /\ command' = r.value
       /\ pc' = IF r.ok THEN "dispatch" ELSE "parse_threw"
       /\ err' = IF r.ok THEN "none" ELSE "ArgumentError"
    /\ UNCHANGED <<commands, defs, argv, out, calls>>

(* Lines 97-101. *)
Dispatch ==
    /\ pc = "dispatch"
    /\ LET r == TopLevel(commands, command) IN
       /\ out' = out \o r.out
       /\ calls' = calls \o r.calls
       /\ err' = r.err
       /\ pc' = IF r.err = "none" THEN "done" ELSE "dispatch_threw"
    /\ UNCHANGED <<commands, defs, argv, command>>

Next == DefineHw \/ DefineCommand \/ ParseArgv \/ Dispatch

Spec == Init /\ [][Next]_vars

(* parseCommand applied to arbitrary vectors, with the shipped registry. *)
ParseInit ==
    /\ pc = "registering"
    /\ commands = defineCommand(EmptyObject, "hw", FnHw).obj
    /\ defs = <<[name |-> "hw", fn |-> FnHw]>>
    /\ argv \in Vectors(Tokens, MaxVec)
    /\ command = NoCommand
    /\ out = <<>>
    /\ calls = <<>>
    /\ err = "none"

ParseNext == ParseArgv

ParseSpec == ParseInit /\ [][ParseNext]_vars

(* The registry alone: sequences of defineCommand calls. *)
RegistryInit ==
    /\ pc = "load"
    /\ commands = EmptyObject
    /\ defs = <<>>
    /\ argv = <<Runtime, Script>>
    /\ command = NoCommand
    /\ out = <<>>
    /\ calls = <<>>
    /\ err = "none"

DefineMore == DefineCommandUpTo(MaxRegs)

RegistryNext == DefineHw \/ DefineMore

RegistrySpec == RegistryInit /\ [][RegistryNext]_vars

(***************************************************************************)
(* Properties.                                                             *)
(***************************************************************************)
Header == "Available commands:"

ListingPrinted == Len(out) >= 1 /\ out[1] = Header

(* Dispatch (lines 97-101) has run, whether it returned or threw. *)
Dispatched == pc \in {"done", "dispatch_threw"}

(* Line 96 has run, whether it returned or threw. *)
Parsed == pc \in {"dispatch", "done", "dispatch_threw", "parse_threw"}

RegisteredNames == {defs[i].name : i \in 1..Len(defs)}

LastFn(n) ==
    LET last == CHOOSE i \in 1..Len(defs) :
                    /\ defs[i].name = n
                    /\ \A j \in (i + 1)..Len(defs) : defs[j].name # n
    IN defs[last].fn

(* The names of defs, each once, in the order of their first registration. *)
FirstRegistered ==
    LET first == {i \in 1..Len(defs) : \A j \in 1..(i - 1) : defs[j].name # defs[i].name}
        IsFirst(i) == i \in first
    IN [k \in 1..Cardinality(first) |->
           defs[SelectSeq([i \in 1..Len(defs) |-> i], IsFirst)[k]].name]

(* The name runCommand looks up: the element at index 1 of the parsed args. *)
LookedUp == ToPropertyKey(At(command.args, 1))

(* C1: dispatching a name that has no registered handler prints the header *)
(* and one "- <name>" line per registered name, invokes no handler, and    *)
(* ends normally.                                                          *)
C1_UnknownNamePrintsListing ==
    (Dispatched /\ Len(command.args) > 0 /\ LookedUp \notin RegisteredNames)
    => /\ pc = "done"
       /\ calls = <<>>
       /\ ListingPrinted
       /\ Len(out) = 1 + Cardinality(RegisteredNames)
       /\ {out[i] : i \in 2..Len(out)} = {"- " \o n : n \in RegisteredNames}

(* C2: with only the runtime and script tokens in the argument vector, the *)
(* handler registered under `help` is invoked exactly once with an empty   *)
(* argument list and the fallback listing is not printed.                  *)
C2_NoUserTokenRunsHelp ==
    (Dispatched /\ argv = <<Runtime, Script>> /\ "help" \in RegisteredNames)
    => /\ calls = <<[fn |-> LastFn("help"), args |-> <<>>]>>
       /\ ~ListingPrinted

(* C3: with the shipped registry, [<runtime>, <script>, "hw"] invokes the  *)
(* hw handler exactly once, prints exactly "Hello world", prints no        *)
(* listing and ends normally.                                              *)
ShippedRegistry == defs = <<[name |-> "hw", fn |-> FnHw]>>

C3_HwPrintsHelloWorld ==
    (ShippedRegistry /\ argv = <<Runtime, Script, "hw">> /\ pc # "registering"
        /\ pc # "dispatch")
    => /\ pc = "done"
       /\ err = "none"
       /\ calls = <<[fn |-> FnHw, args |-> <<Script, "hw">>]>>
       /\ out = <<"Hello world">>

C3_Witness ==
    /\ pc = "done"
    /\ ShippedRegistry
    /\ argv = <<Runtime, Script, "hw">>
    /\ out = <<"Hello world">>

(* C4: after any sequence of defineCommand calls, looking up a name that   *)
(* was registered returns the handler of the most recent defineCommand     *)
(* call for that name, and no call fails.                                  *)
C4_LookupReturnsLastRegistered ==
    /\ pc # "define_threw"
    /\ \A n \in RegisteredNames : Get(commands, n) = LastFn(n)

(* C5, as claimed: an argument vector with a token that begins with `-`,   *)
(* at any position, makes parseCommand fail with an argument error, and no *)
(* handler is invoked and no listing printed.                              *)
C5_AnyDashTokenFails ==
    (Parsed /\ \E i \in 1..Len(argv) : StartsWithDash(argv[i]))
    => /\ pc = "parse_threw"
       /\ err = "ArgumentError"
       /\ calls = <<>>
       /\ out = <<>>

(* An option token that no `--` precedes. *)
HasOptionBeforeTerminator(a) ==
    \E i \in 1..Len(a) :
        /\ IsOption(a[i])
        /\ \A j \in 1..(i - 1) : ~IsTerminator(a[j])

(* C5, amended: parseCommand fails with an argument error exactly when the *)
(* argument vector has, before any `--`, a token that begins with `-`, is  *)
(* longer than one character and is not `--`; the invocation then invokes  *)
(* no handler and prints nothing.  A lone `-`, `--` itself and the tokens  *)
(* after `--` do not make it fail.                                         *)
C5_OptionTokenFails ==
    Parsed =>
        /\ (pc = "parse_threw") = HasOptionBeforeTerminator(argv)
        /\ (pc = "parse_threw") = (err = "ArgumentError")
        /\ HasOptionBeforeTerminator(argv) => (calls = <<>> /\ out = <<>>)

C5_Witness ==
    /\ pc = "parse_threw"
    /\ Len(argv) = 4
    /\ ~StartsWithDash(argv[3])
    /\ IsOption(argv[4])

(* C6: for a non-empty argument vector without option tokens, parseCommand *)
(* returns the first token as the command and the remaining tokens, in     *)
(* order, as the args; ["hw"] gives command "hw" and empty args.           *)
NoOptionTokens(a) == \A i \in 1..Len(a) : ~IsOption(a[i]) /\ ~IsTerminator(a[i])

C6_ParseSplitsFirstFromRest ==
    (Parsed /\ argv # <<>> /\ NoOptionTokens(argv))
    => /\ pc = "dispatch"
       /\ command.command = argv[1]
       /\ command.args = Tail(argv)
       /\ (argv = <<"hw">> => command = [command |-> "hw", args |-> <<>>])

C6_Witness ==
    /\ pc = "dispatch"
    /\ argv = <<"hw">>
    /\ command = [command |-> "hw", args |-> <<>>]

(* C7: an invocation whose argument vector parses invokes exactly one      *)
(* handler exactly once or prints the fallback listing: never both, never  *)
(* neither.                                                                *)
C7_OneHandlerOrListing ==
    Dispatched =>
        \/ (Len(calls) = 1 /\ ~ListingPrinted)
        \/ (calls = <<>> /\ ListingPrinted)

(* The argument vector without its first token. *)
ArgvRest == IF argv = <<>> THEN <<>> ELSE Tail(argv)

(* C8, as claimed: the name looked up is the element at index 1 of the     *)
(* parsed args, a handler found is called with the whole parsed args, and  *)
(* that list is the argument vector without its first token.               *)
C8_HandlerGetsArgvRest ==
    (Dispatched /\ Len(command.args) > 0 /\ calls # <<>>)
    => /\ Len(calls) = 1
       /\ calls[1].fn = Get(commands, LookedUp)
       /\ calls[1].args = command.args
       /\ calls[1].args = ArgvRest

(* A vector without its first `--`. *)
RECURSIVE DropTerminator(_)
DropTerminator(a) ==
    IF a = <<>> THEN <<>>
    ELSE IF a[1] = "--" THEN Tail(a)
    ELSE <<a[1]>> \o DropTerminator(Tail(a))

(* C8, amended: the name looked up is the element at index 1 of the parsed *)
(* args, a handler found is called with the whole parsed args, and that    *)
(* list is the argument vector without its first token and without its     *)
(* first `--` token, if it has one.                                        *)
C8_HandlerGetsPositionalsRest ==
    (Dispatched /\ Len(command.args) > 0 /\ calls # <<>>)
    => /\ Len(calls) = 1
       /\ calls[1].fn = Get(commands, LookedUp)
       /\ calls[1].args = command.args
       /\ calls[1].args = DropTerminator(ArgvRest)

C8_Witness ==
    /\ pc = "done"
    /\ Len(calls) = 1
    /\ calls[1].fn = FnHw
    /\ calls[1].args = <<Script, "hw">>
    /\ argv = <<Runtime, Script, "hw", "--">>

(* C9: the fallback listing prints every registered name exactly once, in  *)
(* the order in which the names were first registered.                     *)
C9_ListingInRegistrationOrder ==
    (pc = "done" /\ ListingPrinted)
    => out = <<Header>> \o
             [i \in 1..Len(FirstRegistered) |-> "- " \o FirstRegistered[i]]

(* C10: when no registered handler fails, an option-free argument vector   *)
(* with at least two tokens never takes the commands.help([]) branch and   *)
(* ends normally with a handler invoked or the fallback listing printed.   *)
C10_NoErrorState ==
    (Dispatched /\ Len(argv) >= 2 /\ \A i \in 1..Len(defs) : defs[i].fn # FnThrow)
    => /\ Len(command.args) > 0
       /\ pc = "done"
       /\ err = "none"
       /\ (Len(calls) = 1 \/ ListingPrinted)

====
